---- MODULE Spec2Model ----
(***************************************************************************)
(* Model of tools/language.py: the Language class (loading of a locale's   *)
(* JSON sources, key lookup with default-locale fallback, fallback cache   *)
(* and placeholder substitution) and the LanguageHolder registry           *)
(* (load_languages, get_language).                                         *)
(*                                                                         *)
(* Python values are tagged records: [t |-> "none"], [t |-> "str", s |->   *)
(* <<chars>>], [t |-> "num", n |-> 5], [t |-> "list"], [t |-> "dict",      *)
(* m |-> function].  Strings on which the code computes (startswith,       *)
(* endswith, replace, sorted) are tuples of one-character strings.         *)
(***************************************************************************)
EXTENDS Integers, Sequences, FiniteSets, TLC

VARIABLES languages, default_code, held, stale, last

vars == <<languages, default_code, held, stale, last>>

(***************************************************************************)
(* Bounds of the model.                                                    *)
(***************************************************************************)
\* most entries of one manifest file
MaxEntries == 2
\* depth of nested get calls at which the interpreter raises RecursionError
RecursionLimit == 3

(***************************************************************************)
(* Python values.                                                          *)
(***************************************************************************)
PyNone == [t |-> "none"]

Str(s) == [t |-> "str", s |-> s]

Num(n) == [t |-> "num", n |-> n]

PyList == [t |-> "list"]

Dict(m) == [t |-> "dict", m |-> m]

\* an instance attribute that was never assigned
Unset == [t |-> "unset"]

EmptyMap == [x \in {} |-> PyNone]

IsStr(v) == v.t = "str"

IsDict(v) == v.t = "dict"

\* bool(v)
Truthy(v) ==
    CASE v.t = "none" -> FALSE
      [] v.t = "str" -> v.s # <<>>
      [] v.t = "num" -> v.n # 0
      [] v.t = "dict" -> DOMAIN v.m # {}
      [] v.t = "bool" -> v.b
      [] OTHER -> FALSE

\* d.get(k, dflt) on a mapping
MapGet(m, k, dflt) == IF k \in DOMAIN m THEN m[k] ELSE dflt

\* d[k] = v on a mapping
MapPut(m, k, v) == [x \in DOMAIN m \cup {k} |-> IF x = k THEN v ELSE m[x]]

\* d.update(e)
MapUpdate(m, e) == [x \in DOMAIN m \cup DOMAIN e |-> IF x \in DOMAIN e THEN e[x] ELSE m[x]]

(***************************************************************************)
(* Strings.                                                                *)
(***************************************************************************)
StartsWith(s, p) == Len(s) >= Len(p) /\ SubSeq(s, 1, Len(p)) = p

EndsWith(s, p) == Len(s) >= Len(p) /\ SubSeq(s, Len(s) - Len(p) + 1, Len(s)) = p

\* s.replace(old, new): every non-overlapping occurrence, leftmost first
RECURSIVE Replace(_, _, _)
Replace(s, old, new) ==
    IF Len(s) < Len(old) \/ old = <<>> THEN s
    ELSE IF SubSeq(s, 1, Len(old)) = old
         THEN new \o Replace(SubSeq(s, Len(old) + 1, Len(s)), old, new)
         ELSE <<s[1]>> \o Replace(Tail(s), old, new)

DigitChars == <<"0", "1", "2", "3", "4", "5", "6", "7", "8", "9">>

RECURSIVE Digits(_)
Digits(n) == IF n < 10 THEN <<DigitChars[n + 1]>> ELSE Digits(n \div 10) \o <<DigitChars[(n % 10) + 1]>>

\* str(v) for the values a replacement mapping holds
StrOf(v) == IF v.t = "str" THEN v.s ELSE Digits(v.n)

\* the characters file names are made of, in code-point order
CharOrder == <<".", "a", "b", "c", "j", "n", "o", "s", "t", "x">>

Ord(c) == CHOOSE i \in 1..Len(CharOrder) : CharOrder[i] = c

\* s < t for two strings
RECURSIVE StrLess(_, _)
StrLess(s, t) ==
    IF t = <<>> THEN FALSE
    ELSE IF s = <<>> THEN TRUE
    ELSE IF s[1] = t[1] THEN StrLess(Tail(s), Tail(t))
    ELSE Ord(s[1]) < Ord(t[1])

\* sorted(names)
RECURSIVE Sorted(_)
Sorted(S) ==
    IF S = {} THEN <<>>
    ELSE LET least == CHOOSE x \in S : \A y \in S \ {x} : StrLess(x, y)
         IN <<least>> \o Sorted(S \ {least})

(***************************************************************************)
(* The files on disk.  A JSON document is DocBad when the file's text is   *)
(* not JSON, PyList when it parses to a document that is not an object,    *)
(* and otherwise a Dict of its top-level fields.                           *)
(***************************************************************************)
DocBad == [t |-> "bad"]

Hn == <<"H", "{", "n", "}">>

AJson == <<"a", ".", "j", "s", "o", "n">>

BJson == <<"b", ".", "j", "s", "o", "n">>

CTxt == <<"c", ".", "t", "x", "t">>

JsonExt == <<".", "j", "s", "o", "n">>

File(doc) == [kind |-> "file", doc |-> doc]

Dir(files) == [kind |-> "dir", files |-> files]

DataDoc(m) == Dict([data |-> Dict(m)])

FS ==
    [p \in {"en.json", "fr.json", "frdir", "dedir", "bad.json", "list.json",
            "nodata.json", "strdata.json", "emptydir", "listdir"} |->
        CASE p = "en.json" -> File(DataDoc([k1 |-> Str(Hn), k2 |-> Str(<<"y">>)]))
          [] p = "fr.json" -> File(DataDoc([k2 |-> Str(<<>>)]))
          [] p = "frdir" -> Dir([f \in {AJson, BJson, CTxt} |->
                                  IF f = AJson THEN DataDoc([k1 |-> Str(<<"1">>), k2 |-> Str(<<"2">>)])
                                  ELSE IF f = BJson THEN DataDoc([k2 |-> Num(5)])
                                  ELSE DocBad])
          [] p = "dedir" -> Dir([f \in {AJson, BJson} |->
                                  IF f = AJson THEN DataDoc([k1 |-> Num(5)]) ELSE DocBad])
          [] p = "bad.json" -> File(DocBad)
          [] p = "list.json" -> File(PyList)
          [] p = "nodata.json" -> File(Dict([author |-> Str(<<"x">>)]))
          [] p = "strdata.json" -> File(Dict([data |-> Str(<<"x">>)]))
          [] p = "emptydir" -> Dir([f \in {BJson, CTxt} |-> IF f = BJson THEN DocBad ELSE DataDoc([k1 |-> Str(<<"1">>)])])
          [] OTHER -> Dir([f \in {AJson} |-> PyList])]

\* os.path.exists
PathExists(p) == p \in DOMAIN FS

\* os.path.isdir
IsDir(p) == p \in DOMAIN FS /\ FS[p].kind = "dir"

(***************************************************************************)
(* Language.__read_data.  The result is [data, exc]: the value of          *)
(* self.data afterwards (Unset when never assigned) and the exception that *)
(* escaped, "none" when none did.                                          *)
(***************************************************************************)
\* one pass of the loop over sorted(os.listdir(location))
RECURSIVE ReadDirLoop(_, _, _, _)
ReadDirLoop(files, names, aggregated_data, found_any) ==
    IF names = <<>> THEN [agg |-> aggregated_data, found |-> found_any, exc |-> "none"]
    ELSE LET fname == Head(names)
             ld == files[fname]
         IN IF ~EndsWith(fname, JsonExt)
            THEN ReadDirLoop(files, Tail(names), aggregated_data, found_any)
            ELSE IF ld = DocBad
            THEN ReadDirLoop(files, Tail(names), aggregated_data, found_any)
            ELSE IF ~IsDict(ld)
            THEN [agg |-> aggregated_data, found |-> found_any, exc |-> "AttributeError"]
            ELSE LET data_piece == MapGet(ld.m, "data", Dict(EmptyMap))
                 IN ReadDirLoop(files, Tail(names),
                                IF IsDict(data_piece) THEN MapUpdate(aggregated_data, data_piece.m)
                                ELSE aggregated_data,
                                TRUE)

ReadData(location) ==
    IF IsDir(location)
    THEN LET r == ReadDirLoop(FS[location].files, Sorted(DOMAIN FS[location].files), EmptyMap, FALSE)
         IN IF r.exc # "none" THEN [data |-> Unset, exc |-> r.exc]
            ELSE IF ~r.found THEN [data |-> Unset, exc |-> "none"]
            ELSE [data |-> Dict(r.agg), exc |-> "none"]
    ELSE IF PathExists(location)
    THEN LET lang_data == FS[location].doc
         IN IF lang_data = DocBad THEN [data |-> Unset, exc |-> "JSONDecodeError"]
            ELSE IF ~IsDict(lang_data) THEN [data |-> Unset, exc |-> "AttributeError"]
            ELSE [data |-> MapGet(lang_data.m, "data", Dict(EmptyMap)), exc |-> "none"]
    ELSE [data |-> Unset, exc |-> "none"]

(***************************************************************************)
(* Language.__init__: the instance built from a manifest entry.  firstGot  *)
(* is a history field: for each key, the value the first plain get(key)    *)
(* that was answered by the default language returned.                     *)
(***************************************************************************)
NewLanguage(json_metadata, locale_code) ==
    LET location == MapGet(json_metadata, "location", "")
        r == ReadData(location)
    IN [obj |-> [locale_code |-> locale_code,
                 name |-> MapGet(json_metadata, "name", "Unknown"),
                 author |-> MapGet(json_metadata, "author", "Unknown"),
                 enabled |-> MapGet(json_metadata, "enabled", FALSE),
                 notes |-> MapGet(json_metadata, "notes", ""),
                 location |-> location,
                 data |-> r.data,
                 firstGot |-> EmptyMap],
        exc |-> r.exc]

(***************************************************************************)
(* LanguageHolder.languages: a dict, modelled as the sequence of its       *)
(* values in insertion order; the key of an entry is its locale_code.      *)
(***************************************************************************)
RegKeys(langs) == {langs[i].locale_code : i \in 1..Len(langs)}

\* the position of key code
RegIndex(langs, code) == CHOOSE i \in 1..Len(langs) : langs[i].locale_code = code

\* languages[code] = lang
RegPut(langs, code, lang) ==
    IF code \in RegKeys(langs)
    THEN [langs EXCEPT ![RegIndex(langs, code)] = lang]
    ELSE Append(langs, lang)

\* faulty variant: the registry is not emptied before a load
ClearRegistry_Keep(langs) == langs

\* languages.clear()
ClearRegistry(langs) == <<>>

(***************************************************************************)
(* LanguageHolder.get_language.  The result is [idx, exc]: the position in *)
(* the registry of the instance returned, or the exception raised.         *)
(***************************************************************************)
\* faulty variant: the fallback ignores default_code and takes the first entry
Fallback_First(langs, dc) == 1

\* languages.get(default_code, next(iter(languages.values())))
Fallback(langs, dc) == IF dc \in RegKeys(langs) THEN RegIndex(langs, dc) ELSE 1

get_language(langs, dc, code) ==
    LET c == IF ~Truthy(code) THEN dc ELSE code.s
    IN IF c \in RegKeys(langs) THEN [idx |-> RegIndex(langs, c), exc |-> "none"]
       ELSE IF langs = <<>> THEN [idx |-> 0, exc |-> "StopIteration"]
       ELSE [idx |-> Fallback(langs, dc), exc |-> "none"]

(***************************************************************************)
(* LanguageHolder.load_languages.  A manifest is the sequence of the       *)
(* (code, value) pairs of the JSON object, in document order.              *)
(***************************************************************************)
NotesPrefix == <<"n", "o", "t", "e", "s">>

EN_US == <<"e", "n", "_", "u", "s">>

FR == <<"f", "r">>

DE == <<"d", "e">>

NOTES_FR == <<"n", "o", "t", "e", "s", "_", "f", "r">>

\* the three assertions on a manifest entry
EntryValid(loc_dict) ==
    /\ IsDict(loc_dict)
    /\ "location" \in DOMAIN loc_dict.m
    /\ "name" \in DOMAIN loc_dict.m

\* if is_default is set, this entry's code becomes default_code
NextDefault(dc, code, loc_dict) ==
    IF MapGet(loc_dict.m, "is_default", FALSE) THEN code ELSE dc

\* the loop over locations.items(), from entry i on
RECURSIVE LoadLoop(_, _, _, _)
LoadLoop(locations, i, langs, dc) ==
    IF i > Len(locations) THEN [langs |-> langs, dc |-> dc, exc |-> "none"]
    ELSE LET code == locations[i].code
             loc_dict == locations[i].val
         IN IF StartsWith(code, NotesPrefix) THEN LoadLoop(locations, i + 1, langs, dc)
            ELSE IF ~EntryValid(loc_dict) THEN [langs |-> langs, dc |-> dc, exc |-> "AssertionError"]
            ELSE LET dc2 == NextDefault(dc, code, loc_dict)
                     made == NewLanguage(loc_dict.m, code)
                 IN IF made.exc # "none" THEN [langs |-> langs, dc |-> dc2, exc |-> made.exc]
                    ELSE LoadLoop(locations, i + 1, RegPut(langs, code, made.obj), dc2)

\* the whole of load_languages on a manifest file: [kind |-> "missing"],
\* [kind |-> "bad"] (not JSON) or [kind |-> "ok", entries |-> ...]
LoadResult(langs, dc, mf) ==
    LET cleared == ClearRegistry(langs)
    IN IF mf.kind = "missing" THEN [langs |-> cleared, dc |-> dc, exc |-> "FileNotFoundError"]
       ELSE IF mf.kind = "bad" THEN [langs |-> cleared, dc |-> dc, exc |-> "JSONDecodeError"]
       ELSE LoadLoop(mf.entries, 1, cleared, dc)

(***************************************************************************)
(* Language.get.  The objects a call can touch are the registry's          *)
(* instances and the caller's own instance when the registry no longer     *)
(* holds it: heap = [reg, st]; a reference is a position in reg, or 0 for  *)
(* st.  The result is [res, exc, nested, wrote, heap]: the value returned, *)
(* the exception raised, the number of nested get calls made, whether      *)
(* the cache line wrote to self.data, and the objects afterwards.          *)
(***************************************************************************)
NoObj == [t |-> "noobj"]

ObjAt(heap, r) == IF r = 0 THEN heap.st ELSE heap.reg[r]

SetData(heap, r, data) ==
    IF r = 0 THEN [heap EXCEPT !.st.data = data]
    ELSE [heap EXCEPT !.reg[r].data = data]

\* faulty variant: every looked-up value is sent to the fallback unless it is a non-string
NeedsFallback_Flipped(got) == ~Truthy(got) \/ IsStr(got)

\* not got or not isinstance(got, str)
NeedsFallback(got) == ~Truthy(got) \/ ~IsStr(got)

\* faulty variant: the recursion guard is missing
IsSelf_Never(default_lang, self) == FALSE

\* default_lang is self
IsSelf(default_lang, self) == default_lang = self

\* faulty variant: the fallback result is not stored
CacheWrite_Skip(heap, r, key, got) == heap

\* self.data[key] = got
CacheWrite(heap, r, key, got) ==
    SetData(heap, r, Dict(MapPut(ObjAt(heap, r).data.m, key, got)))

NoRepl == PyNone

Repl(items) == [t |-> "items", items |-> items]

\* the {placeholder} pattern of a replacement key
Placeholder(k) == <<"{">> \o k \o <<"}">>

\* the loop over replacements.items()
RECURSIVE ReplaceAll(_, _)
ReplaceAll(s, items) ==
    IF items = <<>> THEN s
    ELSE ReplaceAll(Replace(s, Placeholder(Head(items).k), StrOf(Head(items).v)), Tail(items))

\* the {placeholder} replacements applied to the result
Substitute(got, replacements) ==
    IF replacements.t = "items" /\ replacements.items # <<>>
    THEN Str(ReplaceAll(got.s, replacements.items))
    ELSE got

Ret(v, nested, wrote, heap) ==
    [res |-> v, exc |-> "none", nested |-> nested, wrote |-> wrote, heap |-> heap]

Raise(e, nested, heap) ==
    [res |-> PyNone, exc |-> e, nested |-> nested, wrote |-> FALSE, heap |-> heap]

RECURSIVE GetCall(_, _, _, _, _, _, _)
GetCall(heap, dc, self, key, default, replacements, depth) ==
    IF depth >= RecursionLimit THEN Raise("RecursionError", 0, heap)
    ELSE IF ~IsDict(ObjAt(heap, self).data) THEN Raise("AttributeError", 0, heap)
    ELSE LET got == MapGet(ObjAt(heap, self).data.m, key, default)
         IN IF ~NeedsFallback(got) THEN Ret(Substitute(got, replacements), 0, FALSE, heap)
            ELSE IF default # PyNone THEN Ret(Substitute(default, replacements), 0, FALSE, heap)
            ELSE LET default_lang == get_language(heap.reg, dc, PyNone)
                 IN IF default_lang.exc # "none" THEN Raise(default_lang.exc, 0, heap)
                    ELSE IF IsSelf(default_lang.idx, self) THEN Ret(PyNone, 0, FALSE, heap)
                    ELSE LET sub == GetCall(heap, dc, default_lang.idx, key, PyNone, replacements, depth + 1)
                         IN IF sub.exc # "none" THEN Raise(sub.exc, sub.nested + 1, sub.heap)
                            ELSE IF ~Truthy(sub.res) THEN Ret(PyNone, sub.nested + 1, FALSE, sub.heap)
                            ELSE Ret(Substitute(sub.res, replacements), sub.nested + 1, TRUE,
                                     CacheWrite(sub.heap, self, key, sub.res))

(***************************************************************************)
(* The inputs: manifest files, locale codes, keys, defaults, replacements. *)
(***************************************************************************)
Entry(code, val) == [code |-> code, val |-> val]

\* the manifest entries the manifests of the lookup scenarios are made of
CorePool ==
    << Entry(EN_US, Dict([location |-> "en.json", name |-> "English"])),
       Entry(FR, Dict([location |-> "fr.json", name |-> "Francais"])),
       Entry(FR, Dict([location |-> "frdir", name |-> "Francais", is_default |-> TRUE])),
       Entry(DE, Dict([location |-> "nope.json", name |-> "Deutsch"])),
       Entry(NOTES_FR, Dict([location |-> "fr.json", name |-> "Francais", is_default |-> TRUE])) >>

\* the manifest entries the manifests of the loading scenarios are made of
EntryPool ==
    CorePool \o
    << Entry(DE, Dict([location |-> "dedir", name |-> "Deutsch", is_default |-> TRUE])),
       Entry(EN_US, Dict([location |-> "nodata.json", name |-> "English"])),
       Entry(EN_US, Dict([location |-> "emptydir", name |-> "English", is_default |-> FALSE])),
       Entry(FR, Dict([location |-> "bad.json", name |-> "Francais"])),
       Entry(FR, Dict([name |-> "Francais"])),
       Entry(FR, Dict([location |-> "strdata.json", name |-> "Francais"])),
       Entry(DE, Dict([location |-> "dedir"])),
       Entry(DE, Dict([location |-> "listdir", name |-> "Deutsch"])),
       Entry(DE, Dict([location |-> "list.json", name |-> "Deutsch"])),
       Entry(DE, Str(<<"x">>)) >>

\* the JSON objects of at most n entries of pool, keys distinct
RECURSIVE ManifestsUpTo(_, _)
ManifestsUpTo(pool, n) ==
    IF n = 0 THEN {<<>>}
    ELSE LET shorter == ManifestsUpTo(pool, n - 1)
         IN shorter \cup
            {Append(x[1], pool[x[2]]) :
                x \in {y \in shorter \X (1..Len(pool)) :
                          /\ Len(y[1]) = n - 1
                          /\ \A j \in 1..Len(y[1]) : y[1][j].code # pool[y[2]].code}}

ManifestFilesOf(pool) ==
    {[kind |-> "missing"], [kind |-> "bad"]}
        \cup {[kind |-> "ok", entries |-> m] : m \in ManifestsUpTo(pool, MaxEntries)}

CoreManifestFiles == ManifestFilesOf(CorePool)

ManifestFiles == ManifestFilesOf(EntryPool)

\* the arguments of get_language
CodeArgs == {PyNone, Str(<<>>), Str(EN_US), Str(FR), Str(DE), Str(<<"x", "x">>)}

Keys == {"k1", "k2"}

DefaultArgs == {PyNone, Str(<<"X">>)}

ReplArgs == {NoRepl, Repl(<<[k |-> <<"n">>, v |-> Str(<<"A">>)]>>), Repl(<<[k |-> <<"n">>, v |-> Num(5)]>>)}

(***************************************************************************)
(* The state: the two class attributes of LanguageHolder, the caller's     *)
(* Language reference (held: its position in the registry, 0 when the      *)
(* registry does not hold it; stale: the instance itself in that case,     *)
(* NoObj when the caller has no reference), and the record of the last     *)
(* call made: its arguments and what it did.                               *)
(***************************************************************************)
Init ==
    /\ languages = <<>>
    /\ default_code = EN_US
    /\ held = 0
    /\ stale = NoObj
    /\ last = [op |-> "init"]

ManifestKeys(mf) == IF mf.kind = "ok" THEN [i \in 1..Len(mf.entries) |-> mf.entries[i].code] ELSE <<>>

\* every entry that is not a note carries location and name
ManifestValid(mf) ==
    /\ mf.kind = "ok"
    /\ \A i \in 1..Len(mf.entries) :
          StartsWith(mf.entries[i].code, NotesPrefix) \/ EntryValid(mf.entries[i].val)

\* some entry carries a truthy is_default
ManifestSetsDefault(mf) ==
    /\ mf.kind = "ok"
    /\ \E i \in 1..Len(mf.entries) :
          /\ IsDict(mf.entries[i].val)
          /\ MapGet(mf.entries[i].val.m, "is_default", FALSE)

\* LanguageHolder.load_languages(json_path), json_path naming the file mf.
\* The instances of the old registry are dropped by clear(); the caller's
\* reference keeps its instance alive.
LoadLanguages(mf) ==
    LET r == LoadResult(languages, default_code, mf)
    IN /\ languages' = r.langs
       /\ default_code' = r.dc
       /\ held' = 0
       /\ stale' = IF held >= 1 THEN languages[held] ELSE stale
       /\ last' = [op |-> "load_languages", exc |-> r.exc, keys |-> ManifestKeys(mf),
                   exists |-> mf.kind # "missing",
                   valid |-> ManifestValid(mf), sets_default |-> ManifestSetsDefault(mf)]

\* lang = LanguageHolder.get_language(code)
GetLanguage(code) ==
    LET r == get_language(languages, default_code, code)
    IN /\ held' = IF r.exc = "none" THEN r.idx ELSE held
       /\ stale' = IF r.exc = "none" THEN NoObj ELSE stale
       /\ last' = [op |-> "get_language", code |-> code, exc |-> r.exc]
       /\ UNCHANGED <<languages, default_code>>

Absent == [t |-> "absent"]

\* what self.data holds for key before a call
Stored(obj, key) ==
    IF ~IsDict(obj.data) THEN Unset
    ELSE IF key \in DOMAIN obj.data.m THEN obj.data.m[key] ELSE Absent

\* value = lang.get(key, default=default, replacements=replacements)
Get(key, default, replacements) ==
    /\ held >= 1 \/ stale # NoObj
    /\ LET heap == [reg |-> languages, st |-> stale]
           self == ObjAt(heap, held)
           r == GetCall(heap, default_code, held, key, default, replacements, 0)
           first == /\ default = PyNone /\ replacements = NoRepl
                    /\ r.exc = "none" /\ r.res # PyNone /\ r.nested >= 1
                    /\ key \notin DOMAIN self.firstGot
           after == IF first
                    THEN IF held = 0
                         THEN [r.heap EXCEPT !.st.firstGot = MapPut(@, key, r.res)]
                         ELSE [r.heap EXCEPT !.reg[held].firstGot = MapPut(@, key, r.res)]
                    ELSE r.heap
       IN /\ languages' = after.reg
          /\ stale' = after.st
          /\ last' = [op |-> "get", key |-> key, default |-> default,
                      replacements |-> replacements, res |-> r.res, exc |-> r.exc,
                      nested |-> r.nested, stored |-> Stored(self, key),
                      changed |-> ObjAt(r.heap, held).data # self.data,
                      first |-> first]
    /\ UNCHANGED <<default_code, held>>

Next ==
    \/ \E mf \in CoreManifestFiles : LoadLanguages(mf)
    \/ \E code \in CodeArgs : GetLanguage(code)
    \/ \E key \in Keys, default \in DefaultArgs, replacements \in ReplArgs :
          Get(key, default, replacements)

Spec == Init /\ [][Next]_vars

\* loading and resolving alone, over every manifest file
NextLoad ==
    \/ \E mf \in ManifestFiles : LoadLanguages(mf)
    \/ \E code \in CodeArgs : GetLanguage(code)

SpecLoad == Init /\ [][NextLoad]_vars

(***************************************************************************)
(* Vocabulary of the properties.                                           *)
(***************************************************************************)
\* the instance the caller's reference names
HeldObj == IF held = 0 THEN stale ELSE languages[held]

\* the position of the language get_language(None) resolves to
DefaultIdx == get_language(languages, default_code, PyNone).idx

NonEmptyStr(v) == v.t = "str" /\ v.s # <<>>

\* the last call was lang.get(key) with neither default nor replacements
PlainGet == last.op = "get" /\ last.default = PyNone /\ last.replacements = NoRepl

\* obj.data is a mapping that gives key a non-empty string
HasText(obj, key) ==
    IsDict(obj.data) /\ key \in DOMAIN obj.data.m /\ NonEmptyStr(obj.data.m[key])

\* the keys of a manifest that name languages
LanguageKeys(keys) == {keys[i] : i \in {j \in 1..Len(keys) : ~StartsWith(keys[j], NotesPrefix)}}

\* the result get_language is documented to give for code in a loaded registry
DocumentedIdx(code) ==
    LET c == IF code = PyNone \/ code = Str(<<>>) THEN default_code ELSE code.s
    IN IF \E i \in 1..Len(languages) : languages[i].locale_code = c
       THEN CHOOSE i \in 1..Len(languages) : languages[i].locale_code = c
       ELSE IF \E i \in 1..Len(languages) : languages[i].locale_code = default_code
       THEN CHOOSE i \in 1..Len(languages) : languages[i].locale_code = default_code
       ELSE 1

(***************************************************************************)
(* C1.  A plain get(k) on a language that is not the default one, for a k  *)
(* its data mapping lacks and the default language's data maps to a        *)
(* non-empty string, returns the default language's value; every later     *)
(* plain get(k) on the same instance returns that same value and makes no  *)
(* get call on the default language, whatever the registry and its default *)
(* language have become in between.                                        *)
(***************************************************************************)
C1_FallbackThenCache ==
    PlainGet =>
        /\ (/\ languages # <<>>
            /\ held # DefaultIdx
            /\ last.stored = Absent
            /\ HasText(languages[DefaultIdx], last.key))
           => (last.exc = "none" /\ last.res = languages[DefaultIdx].data.m[last.key])
        /\ (last.key \in DOMAIN HeldObj.firstGot /\ ~last.first)
           => (/\ last.exc = "none"
               /\ last.res = HeldObj.firstGot[last.key]
               /\ last.nested = 0)

\* a later plain get(k) answered from the cache while the language that is
\* now the default one has no k
C1_Witness ==
    /\ PlainGet
    /\ ~last.first
    /\ last.key \in DOMAIN HeldObj.firstGot
    /\ last.res = HeldObj.firstGot[last.key]
    /\ languages # <<>>
    /\ IsDict(languages[DefaultIdx].data)
    /\ last.key \notin DOMAIN languages[DefaultIdx].data.m

(***************************************************************************)
(* C2.  A load_languages call that raises the not-found or the validation  *)
(* error leaves the registry as it was before the call, or holding every   *)
(* language of the manifest.                                               *)
(***************************************************************************)
C2_FailedLoadLeavesRegistry ==
    [][(/\ last'.op = "load_languages"
        /\ last'.exc \in {"FileNotFoundError", "AssertionError"})
       => \/ languages' = languages
          \/ (last'.exists /\ RegKeys(languages') = LanguageKeys(last'.keys))]_vars

(***************************************************************************)
(* C3.  After a load_languages call that succeeds, the keys of the         *)
(* registry are exactly the manifest's top-level keys that do not start    *)
(* with "notes".                                                           *)
(***************************************************************************)
C3_ReloadReplaces ==
    (last.op = "load_languages" /\ last.exc = "none")
        => RegKeys(languages) = LanguageKeys(last.keys)

\* a successful reload after which the caller still holds a language whose
\* code the new manifest does not have, and the manifest has a notes key
C3_Witness ==
    /\ last.op = "load_languages"
    /\ last.exc = "none"
    /\ languages # <<>>
    /\ stale # NoObj
    /\ stale.locale_code \notin RegKeys(languages)
    /\ LanguageKeys(last.keys) # {last.keys[i] : i \in 1..Len(last.keys)}

(***************************************************************************)
(* C4.  With at least one language in the registry, get_language(code)     *)
(* raises nothing and returns languages[code] when code (default_code for  *)
(* None or "") is a key, else languages[default_code] when that is a key,  *)
(* else the first entry of the registry.                                   *)
(***************************************************************************)
C4_GetLanguageTotal ==
    (last.op = "get_language" /\ languages # <<>>)
        => /\ last.exc = "none"
           /\ stale = NoObj
           /\ held \in 1..Len(languages)
           /\ held = DocumentedIdx(last.code)

\* a call for a code the registry lacks while default_code is no key either
C4_Witness ==
    /\ last.op = "get_language"
    /\ Len(languages) = 2
    /\ default_code \notin RegKeys(languages)
    /\ NonEmptyStr(last.code)
    /\ last.code.s \notin RegKeys(languages)
    /\ held = 1

(***************************************************************************)
(* C5.  After a load_languages call whose manifest has no entry with a     *)
(* truthy is_default, if the registry is not empty, get_language(None)     *)
(* returns the language registered under "en_us" whenever "en_us" is a key *)
(* of the registry.                                                        *)
(***************************************************************************)
C5_BuiltInDefaultAfterReload ==
    (last.op = "load_languages" /\ ~last.sets_default /\ languages # <<>>)
        => LET r == get_language(languages, default_code, PyNone)
           IN /\ r.exc = "none"
              /\ EN_US \in RegKeys(languages) => languages[r.idx].locale_code = EN_US

(***************************************************************************)
(* C6.  As claimed: for every key present in a language's data mapping, a  *)
(* plain get(key) returns the stored value, makes no get call on the       *)
(* default language and leaves data unchanged.                             *)
(***************************************************************************)
C6_PresentKeyVerbatim ==
    (PlainGet /\ last.stored # Absent /\ last.stored # Unset)
        => /\ last.exc = "none"
           /\ last.res = last.stored
           /\ last.nested = 0
           /\ ~last.changed

(***************************************************************************)
(* C6, amended.  For every key whose value in a language's data mapping is *)
(* a non-empty string, a plain get(key) returns the stored value, makes no *)
(* get call on the default language and leaves data unchanged.             *)
(***************************************************************************)
C6_NonEmptyStringVerbatim ==
    (PlainGet /\ NonEmptyStr(last.stored))
        => /\ last.exc = "none"
           /\ last.res = last.stored
           /\ last.nested = 0
           /\ ~last.changed

\* such a lookup on an instance the caller holds while the registry is empty
C6_Witness ==
    /\ PlainGet
    /\ NonEmptyStr(last.stored)
    /\ last.res = last.stored
    /\ languages = <<>>

(***************************************************************************)
(* C7.  No get call makes more than one nested get call or exhausts the    *)
(* call stack; with at least one language in the registry, get(key)        *)
(* without default on the language get_language(None) resolves to returns  *)
(* None for a key its data mapping lacks, with no nested call.             *)
(***************************************************************************)
C7_GetTerminates ==
    last.op = "get"
        => /\ last.nested <= 1
           /\ last.exc # "RecursionError"
           /\ (/\ languages # <<>>
               /\ held = DefaultIdx
               /\ last.default = PyNone
               /\ last.stored = Absent)
              => (last.exc = "none" /\ last.res = PyNone /\ last.nested = 0)

\* a missing key looked up on the default language while default_code is
\* not a key of the registry
C7_Witness ==
    /\ last.op = "get"
    /\ last.default = PyNone
    /\ languages # <<>>
    /\ default_code \notin RegKeys(languages)
    /\ held = DefaultIdx
    /\ last.stored = Absent
    /\ last.res = PyNone

(***************************************************************************)
(* C8.  Every get on a registered language that was left without data      *)
(* raises nothing and yields the default language's value for the key,     *)
(* None or the supplied default.                                           *)
(***************************************************************************)
C8_NoDataLookupCompletes ==
    (last.op = "get" /\ held >= 1 /\ HeldObj.data = Unset)
        => /\ last.exc = "none"
           /\ \/ last.res = PyNone
              \/ last.res = Substitute(last.default, last.replacements)
              \/ /\ HasText(languages[DefaultIdx], last.key)
                 /\ last.res = Substitute(languages[DefaultIdx].data.m[last.key], last.replacements)

(***************************************************************************)
(* C9.  load_languages on a manifest whose entries all carry location and  *)
(* name raises nothing and registers every entry, whatever is found at the *)
(* locations.                                                              *)
(***************************************************************************)
C9_BadSourceDoesNotAbort ==
    (last.op = "load_languages" /\ last.valid)
        => /\ last.exc = "none"
           /\ RegKeys(languages) = LanguageKeys(last.keys)

(***************************************************************************)
(* C10.  For a registered language L that is not the default language D    *)
(* and a key its loaded data lacks and D's data maps to a non-empty        *)
(* string, every L.get(key, replacements=R) returns what                   *)
(* D.get(key, replacements=R) returns.                                     *)
(***************************************************************************)
C10_CacheTransparent ==
    (/\ last.op = "get"
     /\ last.default = PyNone
     /\ held >= 1
     /\ held # DefaultIdx
     /\ IsDict(ReadData(HeldObj.location).data)
     /\ last.key \notin DOMAIN ReadData(HeldObj.location).data.m
     /\ HasText(languages[DefaultIdx], last.key))
        => /\ last.exc = "none"
           /\ last.res = GetCall([reg |-> languages, st |-> stale], default_code, DefaultIdx,
                                 last.key, PyNone, last.replacements, 0).res

====
